---- MODULE Spec2Model ----
(***************************************************************************)
(* A model of run.py (PDFTurn): the interactive choice of a resolution     *)
(* policy (get_user_choice) and the folder-to-PDF pipeline                 *)
(* (process_images).                                                       *)
(*                                                                         *)
(* Text is a sequence of one-character strings, so that strip, lower,      *)
(* isdigit, int, split and re.split are computed on characters as Python   *)
(* computes them.  The character "sup2" stands for U+00B2 (superscript     *)
(* two), a character for which str.isdigit is true and int() raises.       *)
(***************************************************************************)
EXTENDS Integers, Sequences, FiniteSets

(***************************************************************************)
(* Bounds of the model.                                                    *)
(***************************************************************************)
\* the largest number of directory entries in one input subfolder
MaxFiles == 2
\* console numbers are the decimal numerals of 0..MaxParam
MaxParam == 1

(***************************************************************************)
(* Characters, in code-point order (Python compares text by code point).   *)
(***************************************************************************)
Chars ==
    << " ", "+", "-", ".", "/",
       "0", "1", "2", "3", "4", "5", "6", "7", "8", "9",
       "A", "B", "C", "D", "E", "F", "G", "H", "I", "J", "K", "L", "M",
       "N", "O", "P", "Q", "R", "S", "T", "U", "V", "W", "X", "Y", "Z",
       "a", "b", "c", "d", "e", "f", "g", "h", "i", "j", "k", "l", "m",
       "n", "o", "p", "q", "r", "s", "t", "u", "v", "w", "x", "y", "z",
       "sup2" >>

CharSet == {Chars[i] : i \in 1..Len(Chars)}

\* the place of each character in the code-point order
OrdOf == [c \in CharSet |-> CHOOSE i \in 1..Len(Chars) : Chars[i] = c]

Ord(c) == OrdOf[c]

AsciiDigits == <<"0", "1", "2", "3", "4", "5", "6", "7", "8", "9">>

\* [0-9] of the regular expression, and the digits int() accepts
IsAsciiDigit(c) == c \in {"0", "1", "2", "3", "4", "5", "6", "7", "8", "9"}

DigitVal(c) == (CHOOSE i \in 1..10 : AsciiDigits[i] = c) - 1

\* str.isdigit on one character
IsDigitChar(c) == IsAsciiDigit(c) \/ c = "sup2"

\* str.isdigit: a non-empty text of digit characters
IsDigit(s) == Len(s) > 0 /\ \A i \in 1..Len(s) : IsDigitChar(s[i])

LowerOf ==
    [c \in CharSet |->
        IF OrdOf[c] >= OrdOf["A"] /\ OrdOf[c] <= OrdOf["Z"]
        THEN Chars[OrdOf[c] - OrdOf["A"] + OrdOf["a"]]
        ELSE c]

\* str.lower
Lower(s) == [i \in 1..Len(s) |-> LowerOf[s[i]]]

IsSpace(c) == c = " "

RECURSIVE LStrip(_)
LStrip(s) == IF Len(s) > 0 /\ IsSpace(s[1]) THEN LStrip(Tail(s)) ELSE s

RECURSIVE RStrip(_)
RStrip(s) ==
    IF Len(s) > 0 /\ IsSpace(s[Len(s)])
    THEN RStrip(SubSeq(s, 1, Len(s) - 1))
    ELSE s

\* str.strip
Strip(s) == RStrip(LStrip(s))

\* c in s
Contains(s, c) == \E i \in 1..Len(s) : s[i] = c

\* str.endswith
EndsWith(s, suffix) ==
    /\ Len(s) >= Len(suffix)
    /\ SubSeq(s, Len(s) - Len(suffix) + 1, Len(s)) = suffix

RECURSIVE DigitsValue(_)
DigitsValue(s) ==
    IF Len(s) = 0 THEN 0
    ELSE 10 * DigitsValue(SubSeq(s, 1, Len(s) - 1)) + DigitVal(s[Len(s)])

IsAsciiNumeral(s) == Len(s) > 0 /\ \A i \in 1..Len(s) : IsAsciiDigit(s[i])

\* int(s): surrounding whitespace is dropped, one sign is allowed, and the rest
\* is a non-empty run of the digits 0-9; anything else raises ValueError
IntBody(s) == IF Len(s) > 0 /\ s[1] \in {"+", "-"} THEN Tail(s) ELSE s

IntRaises(s) == ~IsAsciiNumeral(IntBody(Strip(s)))

Int_(s) ==
    LET t == Strip(s)
    IN  IF Len(t) > 0 /\ t[1] = "-"
        THEN 0 - DigitsValue(IntBody(t))
        ELSE DigitsValue(IntBody(t))

\* str.split(sep) for a one-character separator
RECURSIVE Split(_, _)
Split(s, sep) ==
    IF ~Contains(s, sep) THEN <<s>>
    ELSE LET i == CHOOSE j \in 1..Len(s) :
                      s[j] = sep /\ \A m \in 1..(j - 1) : s[m] # sep
         IN  <<SubSeq(s, 1, i - 1)>> \o Split(SubSeq(s, i + 1, Len(s)), sep)

(***************************************************************************)
(* The natural sort key of line 83:                                        *)
(*   [int(c) if c.isdigit() else c for c in re.split('([0-9]+)', x)]       *)
(***************************************************************************)
\* the length of the longest run of characters from position i on that are
\* all digits 0-9 (dig = TRUE) or all other characters (dig = FALSE)
RECURSIVE RunLen(_, _, _)
RunLen(s, i, dig) ==
    IF i > Len(s) \/ IsAsciiDigit(s[i]) # dig THEN 0
    ELSE 1 + RunLen(s, i + 1, dig)

\* re.split('([0-9]+)', s): text, digits, text, ..., text (the text runs at
\* both ends may be empty)
RECURSIVE ReSplit(_)
ReSplit(s) ==
    LET t == RunLen(s, 1, FALSE)
        d == RunLen(s, t + 1, TRUE)
    IN  IF d = 0 THEN <<s>>
        ELSE <<SubSeq(s, 1, t), SubSeq(s, t + 1, t + d)>>
                 \o ReSplit(SubSeq(s, t + d + 1, Len(s)))

\* int(c) raises for a chunk that str.isdigit accepts and int() does not
KeyRaises(x) ==
    LET c == ReSplit(x)
    IN  \E i \in 1..Len(c) : IsDigit(c[i]) /\ IntRaises(c[i])

\* natural_key without the split into runs: the path compared as plain text
natural_key_text(x) == <<x>>

\* the key: the chunks at even positions are the digit runs, as integers
natural_key(x) ==
    LET c == ReSplit(x)
    IN  [i \in 1..Len(c) |-> IF IsDigit(c[i]) THEN Int_(c[i]) ELSE c[i]]

\* Python's < on text: by code point, a proper prefix first
RECURSIVE TextLess(_, _)
TextLess(a, b) ==
    IF Len(b) = 0 THEN FALSE
    ELSE IF Len(a) = 0 THEN TRUE
    ELSE IF a[1] # b[1] THEN Ord(a[1]) < Ord(b[1])
    ELSE TextLess(Tail(a), Tail(b))

\* Python's < on two keys (lists): the first differing element decides, a
\* proper prefix comes first; position i holds text when odd, an integer
\* when even, in both keys
RECURSIVE KeyLessFrom(_, _, _)
KeyLessFrom(a, b, i) ==
    IF i > Len(b) THEN FALSE
    ELSE IF i > Len(a) THEN TRUE
    ELSE IF a[i] = b[i] THEN KeyLessFrom(a, b, i + 1)
    ELSE IF i % 2 = 0 THEN a[i] < b[i]
    ELSE TextLess(a[i], b[i])

KeyLess(a, b) == KeyLessFrom(a, b, 1)

\* os.path.join
Join(dir, f) == dir \o <<"/">> \o f

\* os.path.basename
RECURSIVE basename(_)
basename(path) ==
    IF Contains(path, "/") THEN basename(Tail(path)) ELSE path

input_dir == <<"i", "n", "p", "u", "t">>

\* The state holds the name of a file or folder as one string; its
\* characters are those the table gives.
NameTable ==
    { <<"A", <<"A">> >>,
      <<"B", <<"B">> >>,
      <<"2.jpg", <<"2", ".", "j", "p", "g">> >>,
      <<"10.PNG", <<"1", "0", ".", "P", "N", "G">> >>,
      <<"1.jpeg", <<"1", ".", "j", "p", "e", "g">> >>,
      <<"a.txt", <<"a", ".", "t", "x", "t">> >> }

text(name) == (CHOOSE e \in NameTable : e[1] = name)[2]

\* os.path.join(folder_path, f) of line 80, for the names of folder and file
PathOf(folder, f) == Join(Join(input_dir, text(folder)), text(f))

\* sorted(paths, key=natural_key): a stable insertion sort of the folder's
\* paths, each held by its file name
RECURSIVE Insert(_, _, _)
Insert(folder, sorted, x) ==
    IF Len(sorted) = 0 THEN <<x>>
    ELSE IF KeyLess(natural_key(PathOf(folder, x)),
                    natural_key(PathOf(folder, Head(sorted))))
    THEN <<x>> \o sorted
    ELSE <<Head(sorted)>> \o Insert(folder, Tail(sorted), x)

RECURSIVE Sorted(_, _)
Sorted(folder, names) ==
    IF Len(names) = 0 THEN <<>>
    ELSE Insert(folder, Sorted(folder, SubSeq(names, 1, Len(names) - 1)),
                names[Len(names)])

\* f.lower().endswith(('.jpg', '.jpeg', '.png', '.webp'))
Extensions ==
    { <<".", "j", "p", "g">>, <<".", "j", "p", "e", "g">>,
      <<".", "p", "n", "g">>, <<".", "w", "e", "b", "p">> }

HasImageExtension(f) == \E e \in Extensions : EndsWith(Lower(f), e)

\* the names of the table that line 82 keeps
ImageNames == {e[1] : e \in {x \in NameTable : HasImageExtension(x[2])}}

IsImage(f) == f \in ImageNames

(***************************************************************************)
(* The inputs: the console lines a prompt may read and the input tree.     *)
(***************************************************************************)
RECURSIVE Numeral(_)
Numeral(v) ==
    IF v < 10 THEN <<AsciiDigits[v + 1]>>
    ELSE Numeral(v \div 10) \o <<AsciiDigits[(v % 10) + 1]>>

MenuLines ==
    { <<>>, <<"1">>, <<"2">>, <<"3">>, <<"4">>, <<"5">>, <<"6">>, <<"7">>,
      <<" ", "2", " ">> }

NumLines == {Numeral(v) : v \in 0..MaxParam} \cup { <<"sup2">>, <<"a">> }

ResLines ==
    { <<"0", "x", "0">>, <<"1", "x", "2">>, <<"2", "X", "1">>,
      <<"-", "1", "x", "1">>, <<"1", "x">>, <<"1", "x", "1", "x", "1">>,
      <<"sup2", "x", "1">> }

ConsoleLines == MenuLines \cup NumLines \cup ResLines

Range(seq) == {seq[i] : i \in 1..Len(seq)}

\* the entries of input (os.listdir(input_dir))
InputEntries == {"A", "B"}

\* the files a subfolder may hold, each with the pixel size (width, height)
\* Image.open finds in it (<<>> for a file that is no image)
FilePool ==
    { [name |-> "1.jpeg", size |-> <<1, 1>>],
      [name |-> "2.jpg", size |-> <<1, 2>>],
      [name |-> "10.PNG", size |-> <<2, 1>>],
      [name |-> "a.txt", size |-> <<>>] }

\* the contents a subfolder may have
Listings == {F \in SUBSET FilePool : Cardinality(F) <= MaxFiles}

\* the orders in which os.listdir may return the names of S
Perms(S) ==
    { p \in [1..Cardinality(S) -> S] :
        \A i, j \in 1..Cardinality(S) : p[i] = p[j] => i = j }

(***************************************************************************)
(* The state.                                                              *)
(***************************************************************************)
VARIABLES
    tree,         \* the entries of input read so far: [name, isdir, files]
    pc,           \* the position in process_images / get_user_choice
    temp_dir,     \* whether the directory temp_pdf_images exists
    temp,         \* the files in temp_dir: [base, folder, size]
    mode,         \* the policy returned by get_user_choice: its mode ...
    param,        \* ... and its parameter: <<n>>, <<w, h>> or <<>> (None)
    entries,      \* the entries of input the folder loop has yet to visit
    folder_name,  \* the loop variable of line 73
    image_files,  \* the sorted image paths of the current folder
    n,            \* the index computed at line 91
    target_size,  \* <<w, h>>, or <<>> for None
    k,            \* the per-image loop's position in image_files (from 1)
    temp_images,  \* the staged paths of the current folder
    pdfs,         \* the files in output: [name, pages]
    exc,          \* the exception in flight ("none" when there is none)
    log,          \* what has been printed: [kind, folder, name]
    opened        \* the Image.open calls made: [folder, name]

vars ==
    << tree, pc, temp_dir, temp, mode, param, entries, folder_name,
       image_files, n, target_size, k, temp_images, pdfs, exc, log, opened >>

prompt_vars == <<mode, param>>

loop_vars ==
    << entries, folder_name, image_files, n, target_size, k, temp_images >>

out_vars == <<temp, pdfs, log, opened>>

Init ==
    /\ tree = {}
    /\ pc = "makedirs"
    /\ temp_dir = FALSE
    /\ temp = {}
    /\ mode = "unset"
    /\ param = <<>>
    /\ entries = <<>>
    /\ folder_name = ""
    /\ image_files = <<>>
    /\ n = 0
    /\ target_size = <<>>
    /\ k = 0
    /\ temp_images = <<>>
    /\ pdfs = {}
    /\ exc = "none"
    /\ log = {}
    /\ opened = {}

(***************************************************************************)
(* process_images, lines 59-70: the directories, then the prompt.          *)
(***************************************************************************)
MakeDirs ==
    /\ pc = "makedirs"
    /\ temp_dir' = TRUE
    /\ pc' = "choice"
    /\ UNCHANGED <<tree, temp, prompt_vars, loop_vars, pdfs, exc, log, opened>>

\* get_user_choice returns (m, p) to line 70; line 73 comes next
Return(m, p) ==
    /\ mode' = m
    /\ param' = p
    /\ pc' = "listdir"
    /\ exc' = exc

\* an exception leaves get_user_choice and, line 70 being outside the try
\* block of line 72, leaves process_images
Raise(e) ==
    /\ exc' = e
    /\ pc' = "raised"
    /\ UNCHANGED prompt_vars

Goto(p) ==
    /\ pc' = p
    /\ UNCHANGED <<prompt_vars, exc>>

\* int(s) if s.isdigit() else default   (lines 33, 47, 50)
ReadNumber(m, s, default) ==
    IF ~IsDigit(s) THEN Return(m, <<default>>)
    ELSE IF IntRaises(s) THEN Raise("ValueError")
    ELSE Return(m, <<Int_(s)>>)

DefaultN == 3
DefaultWidth == 800
DefaultHeight == 600

\* lines 29-54, the menu
ReadChoice ==
    /\ pc = "choice"
    /\ \E line \in ConsoleLines :
        LET choice == IF Strip(line) = <<>> THEN <<"1">> ELSE Strip(line)
        IN  CASE choice = <<"1">> -> Goto("nth")
              [] choice = <<"2">> -> Return("max_resolution", <<>>)
              [] choice = <<"3">> -> Goto("size")
              [] choice = <<"4">> -> Goto("width")
              [] choice = <<"5">> -> Goto("height")
              [] choice = <<"6">> -> Return("original_size", <<>>)
              [] OTHER -> Return("use_nth_image", <<DefaultN>>)
    /\ UNCHANGED <<tree, temp_dir, loop_vars, out_vars>>

\* lines 32-33
ReadN ==
    /\ pc = "nth"
    /\ \E line \in ConsoleLines :
        ReadNumber("use_nth_image", Strip(line), DefaultN)
    /\ UNCHANGED <<tree, temp_dir, loop_vars, out_vars>>

\* lines 37-44: one turn of the loop; a line without "x", or one that does
\* not unpack to two integers, asks again
ReadSize ==
    /\ pc = "size"
    /\ \E line \in ConsoleLines :
        LET size == Strip(line)
            parts == Split(Lower(size), "x")
        IN  IF /\ Contains(Lower(size), "x")
               /\ Len(parts) = 2
               /\ ~IntRaises(parts[1])
               /\ ~IntRaises(parts[2])
            THEN Return("fixed_resolution", <<Int_(parts[1]), Int_(parts[2])>>)
            ELSE Goto("size")
    /\ UNCHANGED <<tree, temp_dir, loop_vars, out_vars>>

\* lines 46-47
ReadWidth ==
    /\ pc = "width"
    /\ \E line \in ConsoleLines :
        ReadNumber("fixed_width", Strip(line), DefaultWidth)
    /\ UNCHANGED <<tree, temp_dir, loop_vars, out_vars>>

\* lines 49-50
ReadHeight ==
    /\ pc = "height"
    /\ \E line \in ConsoleLines :
        ReadNumber("fixed_height", Strip(line), DefaultHeight)
    /\ UNCHANGED <<tree, temp_dir, loop_vars, out_vars>>

\* input() at the end of the console's input raises EOFError
ReadEOF ==
    /\ pc \in {"choice", "nth", "size", "width", "height"}
    /\ Raise("EOFError")
    /\ UNCHANGED <<tree, temp_dir, loop_vars, out_vars>>

(***************************************************************************)
(* process_images, lines 72-149: the folder loop inside try / finally.     *)
(*                                                                         *)
(* A call into the imaging or PDF library, or into the file system, may    *)
(* raise; the model takes a call that raises to have had no effect.        *)
(***************************************************************************)
Min(a, b) == IF a <= b THEN a ELSE b

Max(S) == CHOOSE m \in S : \A x \in S : x <= m

\* list[i] for a Python index i: valid from -len to len - 1
PyIndexOk(i, len) == 0 - len <= i /\ i < len

\* the position, counted from 1, that the valid Python index i names
PyIndex(i, len) == IF i < 0 THEN len + i + 1 ELSE i + 1

Names(F) == {f.name : f \in F}

\* Image.open(path).size, for the file f of the folder
size(folder, f) ==
    LET dir == CHOOSE d \in tree : d.name = folder
    IN  (CHOOSE x \in dir.files : x.name = f).size

\* the file in temp_dir that line 112 / 132 names for the image f of the
\* folder: os.path.basename of its path, which is f
temp_path(folder, f) ==
    CHOOSE b \in Names(FilePool) : text(b) = basename(PathOf(folder, f))

\* img.save(temp_path): the file is created or overwritten
Save(files, file) == {t \in files : t.base # file.base} \cup {file}

\* lines 146-149: the finally block
Finally ==
    /\ temp_dir' = FALSE
    /\ temp' = {}

\* RaiseInTry with a try / except around the body of the folder loop: the
\* exception is kept for the report and the loop goes on
RaiseCaughtForFolder(e) ==
    /\ exc' = e
    /\ UNCHANGED <<temp_dir, temp>>
    /\ pc' = "loop"

\* an exception raised inside the try block of line 72 runs the finally
\* block and leaves process_images
RaiseInTry(e) ==
    /\ exc' = e
    /\ Finally
    /\ pc' = "raised"

\* line 73: os.listdir(input_dir), in any order
ListInputDir ==
    /\ pc = "listdir"
    /\ \E order \in Perms(InputEntries) : entries' = order
    /\ pc' = "loop"
    /\ UNCHANGED << tree, temp_dir, prompt_vars, folder_name, image_files, n,
                    target_size, k, temp_images, out_vars, exc >>

\* the loop of line 73 takes the next entry, which is what e says
Take(e) ==
    /\ entries # <<>>
    /\ e.name = Head(entries)
    /\ tree' = tree \cup {e}
    /\ folder_name' = Head(entries)
    /\ entries' = Tail(entries)

NotDir(f) == [name |-> f, isdir |-> FALSE, files |-> {}]

Dir(f, F) == [name |-> f, isdir |-> TRUE, files |-> F]

\* lines 73-76: an entry of input that is no directory is passed over
SkipNotDir ==
    /\ pc = "loop"
    /\ \E f \in InputEntries : Take(NotDir(f))
    /\ UNCHANGED << pc, temp_dir, prompt_vars, image_files, n,
                    target_size, k, temp_images, out_vars, exc >>

\* lines 79-83 for the folder and one order of os.listdir(folder_path)
Listed(folder, order) == Sorted(folder, SelectSeq(order, IsImage))

\* SkipEmptyFolder without the test of line 85: the folder is processed
SkipEmptyFolderUnchecked ==
    /\ pc = "loop"
    /\ \E f \in InputEntries, F \in Listings :
        /\ Take(Dir(f, F))
        /\ \E order \in Perms(Names(F)) :
            /\ Listed(f, order) = <<>>
            /\ image_files' = <<>>
    /\ pc' = "resolve"
    /\ UNCHANGED << temp_dir, prompt_vars, n, target_size, k,
                    temp_images, out_vars, exc >>

\* lines 85-87: a folder without image files is reported and passed over
SkipEmptyFolder ==
    /\ pc = "loop"
    /\ \E f \in InputEntries, F \in Listings :
        /\ Take(Dir(f, F))
        /\ \E order \in Perms(Names(F)) :
            /\ Listed(f, order) = <<>>
            /\ image_files' = <<>>
        /\ log' = log \cup {[kind |-> "skipped", folder |-> f, name |-> ""]}
    /\ UNCHANGED << pc, temp_dir, temp, prompt_vars, n, target_size, k,
                    temp_images, pdfs, exc, opened >>

\* lines 73-88: a folder with image files
EnterFolder ==
    /\ pc = "loop"
    /\ \E f \in InputEntries, F \in Listings :
        /\ Take(Dir(f, F))
        /\ \E order \in Perms(Names(F)) :
            /\ \A i \in 1..Len(order) : ~KeyRaises(PathOf(f, order[i]))
            /\ LET listed == Listed(f, order)
               IN  listed # <<>> /\ image_files' = listed
    /\ pc' = "resolve"
    /\ UNCHANGED << temp_dir, prompt_vars, n, target_size, k,
                    temp_images, out_vars, exc >>

\* lines 79-83: os.listdir(folder_path) raises
ListFolderFails ==
    /\ pc = "loop"
    /\ entries # <<>>
    /\ folder_name' = Head(entries)
    /\ entries' = Tail(entries)
    /\ RaiseInTry("listdir")
    /\ UNCHANGED << tree, prompt_vars, image_files, n, target_size,
                    k, temp_images, pdfs, log, opened >>

\* line 73: the loop is over; the finally block runs and process_images
\* returns
LoopEnd ==
    /\ pc = "loop"
    /\ entries = <<>>
    /\ Finally
    /\ pc' = "done"
    /\ UNCHANGED <<tree, prompt_vars, loop_vars, pdfs, log, opened, exc>>

\* line 91
NthIndex(p, len) == Min(p - 1, len - 1)

\* MaxSize as max(sizes): the largest size in the order of tuples, which is
\* the size of one image
MaxSizeOfOne(sizes) ==
    CHOOSE s \in sizes :
        \A t \in sizes : t[1] < s[1] \/ (t[1] = s[1] /\ t[2] <= s[2])

\* line 96
MaxSize(sizes) == << Max({s[1] : s \in sizes}), Max({s[2] : s \in sizes}) >>

Opened(folder, names) == {[folder |-> folder, name |-> x] : x \in names}

\* lines 90-100, then the loop of line 105 starts
ResolveTarget ==
    /\ pc = "resolve"
    /\ CASE mode = "use_nth_image" ->
              LET i == NthIndex(param[1], Len(image_files))
              IN  /\ PyIndexOk(i, Len(image_files))
                  /\ n' = i
                  /\ target_size' =
                         size(folder_name, image_files[PyIndex(i, Len(image_files))])
                  /\ opened' = opened \cup
                         Opened(folder_name, {image_files[PyIndex(i, Len(image_files))]})
         [] mode = "max_resolution" ->
              /\ image_files # <<>>
              /\ n' = n
              /\ target_size' =
                     MaxSize({size(folder_name, f) : f \in Range(image_files)})
              /\ opened' = opened \cup Opened(folder_name, Range(image_files))
         [] mode = "fixed_resolution" ->
              /\ n' = n
              /\ target_size' = param
              /\ opened' = opened
         [] OTHER ->
              /\ n' = n
              /\ target_size' = <<>>
              /\ opened' = opened
    /\ k' = 1
    /\ temp_images' = <<>>
    /\ pc' = IF image_files = <<>> THEN "pdf" ELSE "image"
    /\ UNCHANGED << tree, temp_dir, temp, prompt_vars, entries, folder_name,
                    image_files, pdfs, exc, log >>

\* lines 90-96: image_files[n], Image.open or max() raises; the Image.open
\* calls made are those up to the one that raised
ResolveFails ==
    /\ pc = "resolve"
    /\ mode \in {"use_nth_image", "max_resolution"}
    /\ IF mode = "use_nth_image"
       THEN LET i == NthIndex(param[1], Len(image_files))
            IN  /\ n' = i
                /\ opened' =
                       IF PyIndexOk(i, Len(image_files))
                       THEN opened \cup Opened(folder_name,
                                {image_files[PyIndex(i, Len(image_files))]})
                       ELSE opened
       ELSE /\ n' = n
            /\ \E j \in 0..Len(image_files) :
                   opened' = opened \cup
                       Opened(folder_name, Range(SubSeq(image_files, 1, j)))
    /\ RaiseInTry("resolve")
    /\ UNCHANGED << tree, prompt_vars, entries, folder_name,
                    image_files, target_size, k, temp_images, pdfs, log >>

\* StagedSize with the two arguments of resize swapped at line 123
StagedSizeSwapped(m, p, target, s) ==
    IF m = "original_size" THEN s
    ELSE IF m = "fixed_width" THEN <<p[1], s[2]>>
    ELSE IF m = "fixed_height" THEN <<p[1], s[1]>>
    ELSE IF target # <<>> /\ s # target THEN target
    ELSE s

\* lines 107-125: the size img has when it is saved, from its own size s
StagedSize(m, p, target, s) ==
    IF m = "original_size" THEN s
    ELSE IF m = "fixed_width" THEN <<p[1], s[2]>>
    ELSE IF m = "fixed_height" THEN <<s[1], p[1]>>
    ELSE IF target # <<>> /\ s # target THEN target
    ELSE s

\* whether lines 120-125 call img.resize
Resizes(m, target, s) ==
    \/ m \in {"fixed_width", "fixed_height"}
    \/ m # "original_size" /\ target # <<>> /\ s # target

\* img.resize raises ValueError for a size that is not positive
ResizeRaises(m, p, target, s) ==
    /\ Resizes(m, target, s)
    /\ \E d \in 1..2 : StagedSize(m, p, target, s)[d] <= 0

\* line 105 moves to the next image, or the loop ends and line 140 is next
NextImage ==
    /\ k' = k + 1
    /\ pc' = IF k < Len(image_files) THEN "image" ELSE "pdf"

\* lines 106-134: the image is opened, resized, flattened and saved
ProcessImage ==
    /\ pc = "image"
    /\ LET img_path == image_files[k]
           s == size(folder_name, img_path)
       IN  /\ ~ResizeRaises(mode, param, target_size, s)
           /\ temp' = Save(temp, [base |-> temp_path(folder_name, img_path),
                                  folder |-> folder_name,
                                  size |-> StagedSize(mode, param, target_size, s)])
           /\ temp_images' = Append(temp_images, temp_path(folder_name, img_path))
           /\ opened' = opened \cup Opened(folder_name, {img_path})
    /\ NextImage
    /\ UNCHANGED << tree, temp_dir, prompt_vars, entries, folder_name,
                    image_files, n, target_size, pdfs, exc, log >>

\* ImageFails without the continue of line 137: the failure is printed and
\* raised again
ImageFailsPropagates ==
    /\ pc = "image"
    /\ log' = log \cup {[kind |-> "failed", folder |-> folder_name,
                         name |-> image_files[k]]}
    /\ opened' = opened \cup Opened(folder_name, {image_files[k]})
    /\ RaiseInTry("image")
    /\ UNCHANGED << tree, prompt_vars, loop_vars, pdfs >>

\* ImageFails with temp_images.append ahead of the calls that may raise
ImageFailsStagesPath ==
    /\ pc = "image"
    /\ log' = log \cup {[kind |-> "failed", folder |-> folder_name,
                         name |-> image_files[k]]}
    /\ opened' = opened \cup Opened(folder_name, {image_files[k]})
    /\ temp_images' = Append(temp_images, temp_path(folder_name, image_files[k]))
    /\ NextImage
    /\ UNCHANGED << tree, temp_dir, temp, prompt_vars, entries, folder_name,
                    image_files, n, target_size, pdfs, exc >>

\* lines 135-137: a call of lines 106-134 raised; the failure is printed and
\* the loop goes on
ImageFails ==
    /\ pc = "image"
    /\ log' = log \cup {[kind |-> "failed", folder |-> folder_name,
                         name |-> image_files[k]]}
    /\ opened' = opened \cup Opened(folder_name, {image_files[k]})
    /\ NextImage
    /\ UNCHANGED << tree, temp_dir, temp, prompt_vars, entries, folder_name,
                    image_files, n, target_size, temp_images, pdfs, exc >>

\* img2pdf.convert(temp_images): one page for each path, read from temp_dir
Pages(paths, files) ==
    [i \in 1..Len(paths) |->
        LET t == CHOOSE t \in files : t.base = paths[i]
        IN  [folder |-> t.folder, name |-> t.base, size |-> t.size]]

WriteFile(files, file) == {f \in files : f.name # file.name} \cup {file}

\* line 140: nothing was staged, no PDF is written
NoPdf ==
    /\ pc = "pdf"
    /\ temp_images = <<>>
    /\ pc' = "loop"
    /\ UNCHANGED <<tree, temp_dir, prompt_vars, loop_vars, out_vars, exc>>

\* lines 140-144
WritePdf ==
    /\ pc = "pdf"
    /\ temp_images # <<>>
    /\ pdfs' = WriteFile(pdfs, [name |-> folder_name,
                                pages |-> Pages(temp_images, temp)])
    /\ log' = log \cup {[kind |-> "generated", folder |-> folder_name, name |-> ""]}
    /\ pc' = "loop"
    /\ UNCHANGED << tree, temp_dir, temp, prompt_vars, loop_vars, exc, opened >>

\* lines 142-143: open(pdf_path, "wb") raises and leaves no file, or
\* img2pdf.convert raises and leaves the file that open created, empty
WritePdfFails ==
    /\ pc = "pdf"
    /\ temp_images # <<>>
    /\ \E created \in BOOLEAN :
        pdfs' = IF created
                THEN WriteFile(pdfs, [name |-> folder_name, pages |-> <<>>])
                ELSE pdfs
    /\ RaiseInTry("pdf")
    /\ UNCHANGED << tree, prompt_vars, loop_vars, log, opened >>

Next ==
    \/ MakeDirs
    \/ ReadChoice
    \/ ReadN
    \/ ReadSize
    \/ ReadWidth
    \/ ReadHeight
    \/ ReadEOF
    \/ ListInputDir
    \/ SkipNotDir
    \/ SkipEmptyFolder
    \/ EnterFolder
    \/ ListFolderFails
    \/ LoopEnd
    \/ ResolveTarget
    \/ ResolveFails
    \/ ProcessImage
    \/ ImageFails
    \/ NoPdf
    \/ WritePdf
    \/ WritePdfFails

Spec == Init /\ [][Next]_vars

(***************************************************************************)
(* What the claims speak of.                                               *)
(***************************************************************************)
PromptPcs == {"choice", "nth", "size", "width", "height"}

\* the exceptions of one folder's processing outside the per-image loop
FolderExcs == {"listdir", "resolve", "pdf"}

\* the entry of input with the name f, once read
Entry(f) == CHOOSE d \in tree : d.name = f

\* the image files of a folder of input
Images(d) == {f \in Names(d.files) : IsImage(f)}

\* the images of the folder whose failure has been printed
Failed(folder) ==
    {l.name : l \in {x \in log : x.kind = "failed" /\ x.folder = folder}}

HasPdf(folder) == \E p \in pdfs : p.name = folder /\ p.pages # <<>>

PageNames(p) == [i \in 1..Len(p.pages) |-> p.pages[i].name]

\* The natural order of two names, as the specification words it: the names
\* are read run by run, a run of other characters is compared as text, a run
\* of digits as an integer, and a name that ends first comes first.
RECURSIVE NaturalLess(_, _)
NaturalLess(a, b) ==
    LET ta == SubSeq(a, 1, RunLen(a, 1, FALSE))
        tb == SubSeq(b, 1, RunLen(b, 1, FALSE))
        ra == SubSeq(a, Len(ta) + 1, Len(a))
        rb == SubSeq(b, Len(tb) + 1, Len(b))
        da == SubSeq(ra, 1, RunLen(ra, 1, TRUE))
        db == SubSeq(rb, 1, RunLen(rb, 1, TRUE))
    IN  IF ta # tb THEN TextLess(ta, tb)
        ELSE IF Len(rb) = 0 THEN FALSE
        ELSE IF Len(ra) = 0 THEN TRUE
        ELSE IF DigitsValue(da) # DigitsValue(db)
        THEN DigitsValue(da) < DigitsValue(db)
        ELSE NaturalLess(SubSeq(ra, Len(da) + 1, Len(ra)),
                         SubSeq(rb, Len(db) + 1, Len(rb)))

\* the natural order on the names of the table
NaturalOrder ==
    {e \in {x[1] : x \in NameTable} \X {x[1] : x \in NameTable} :
        NaturalLess(text(e[1]), text(e[2]))}

Clamp(x, lo, hi) == IF x < lo THEN lo ELSE IF x > hi THEN hi ELSE x

(***************************************************************************)
(* C1: once the temp staging directory has been created, every way the     *)
(* run can end, an exception raised while the prompt is read included,     *)
(* leaves the directory removed.                                           *)
(***************************************************************************)
C1_TempRemovedOnEveryExit == pc \in {"done", "raised"} => ~temp_dir

(***************************************************************************)
(* C2: the pages of a folder's PDF are the folder's image files in natural *)
(* order (digit runs as integers, other runs as text) without the images   *)
(* that failed: one page for each staged image, none twice, none out of    *)
(* order.                                                                  *)
(***************************************************************************)
C2_PagesInNaturalOrder ==
    \A p \in pdfs :
        p.pages # <<>> =>
            LET names == PageNames(p)
                staged == Images(Entry(p.name)) \ Failed(p.name)
            IN  /\ Range(names) = staged
                /\ Len(names) = Cardinality(staged)
                /\ \A i, j \in 1..Len(names) :
                       i < j => <<names[i], names[j]>> \in NaturalOrder

\* the PDF of A has the pages 2.jpg, 10.PNG, which plain text order would
\* swap, and the PDF of B lacks an image of B that failed
C2_Witness ==
    /\ \E p \in pdfs : p.name = "A" /\ PageNames(p) = <<"2.jpg", "10.PNG">>
    /\ \E p \in pdfs :
        /\ p.name = "B"
        /\ Len(p.pages) = 1
        /\ Failed("B") # {}

(***************************************************************************)
(* C3: a subfolder without a file of a recognized extension gets no PDF,   *)
(* no image of it is decoded, and the run goes on with the next subfolder, *)
(* whatever the policy.                                                    *)
(***************************************************************************)
C3_EmptyFolderSkipped ==
    \A d \in tree :
        (d.isdir /\ Images(d) = {}) =>
            /\ \A p \in pdfs : p.name # d.name
            /\ \A o \in opened : o.folder # d.name
            /\ folder_name = d.name => (pc \in {"loop", "done"} /\ exc = "none")

\* A holds a.txt alone and was passed over; B then got its PDF
C3_Witness ==
    /\ \E d \in tree : d.name = "A" /\ d.isdir /\ d.files # {} /\ Images(d) = {}
    /\ HasPdf("B")

(***************************************************************************)
(* C4: under UseNthImage(n) the image that gives the target size is the    *)
(* one at index n-1 clamped to [0, len-1], and taking it never fails with  *)
(* an index out of range.                                                  *)
(***************************************************************************)
C4_NthIndexClamped ==
    (mode = "use_nth_image" /\ pc \in {"image", "pdf"}) =>
        LET len == Len(image_files)
            at == Clamp(param[1] - 1, 0, len - 1)
        IN  /\ PyIndexOk(n, len)
            /\ PyIndex(n, len) = at + 1
            /\ target_size = size(folder_name, image_files[at + 1])

(***************************************************************************)
(* C5: under MaxResolution the target size of a folder whose images all    *)
(* decode is (the largest width, the largest height) over the folder's     *)
(* images, the two possibly from different images.                         *)
(***************************************************************************)
C5_MaxResolution ==
    (mode = "max_resolution" /\ pc \in {"image", "pdf"}) =>
        LET imgs == Images(Entry(folder_name))
        IN  \A c \in 1..2 :
                /\ \A f \in imgs : size(folder_name, f)[c] <= target_size[c]
                /\ \E f \in imgs : size(folder_name, f)[c] = target_size[c]

\* the target size is that of no image of the folder
C5_Witness ==
    /\ mode = "max_resolution"
    /\ pc = "image"
    /\ target_size = <<2, 2>>
    /\ \A f \in Images(Entry(folder_name)) : size(folder_name, f) # <<2, 2>>

(***************************************************************************)
(* C6: a failure on one image inside the per-image loop is printed and     *)
(* touches that image alone: the loop goes on with the next image of the   *)
(* folder, the folder's PDF is written from what was staged, and the later *)
(* folders are processed.                                                  *)
(***************************************************************************)
\* at a normal end every image of every folder was either staged into the
\* folder's PDF or reported as failed, and a folder has a PDF exactly when
\* one of its images was staged
C6_AllAttempted ==
    pc = "done" =>
        /\ Names(tree) = InputEntries
        /\ \A d \in tree :
               d.isdir =>
                   /\ HasPdf(d.name) <=> Images(d) \ Failed(d.name) # {}
                   /\ \A p \in pdfs :
                          p.name = d.name =>
                              Range(PageNames(p)) = Images(d) \ Failed(d.name)

\* the step that prints a failure leaves no exception in flight and moves
\* to the next image of the same folder (or to the folder's PDF)
C6_LoopGoesOn ==
    (\E l \in log' \ log : l.kind = "failed") =>
        /\ exc' = "none"
        /\ pc' = (IF k < Len(image_files) THEN "image" ELSE "pdf")
        /\ k' = k + 1
        /\ UNCHANGED << entries, folder_name, image_files, temp_images, temp,
                        temp_dir, pdfs >>

C6_ImageFailureIsolated == []C6_AllAttempted /\ [][C6_LoopGoesOn]_vars

\* the first image of A failed, a later image of A is in A's PDF, and B,
\* a later folder, has its PDF
C6_Witness ==
    /\ pc = "done"
    /\ Failed("A") = {"2.jpg"}
    /\ \E p \in pdfs : p.name = "A" /\ PageNames(p) = <<"10.PNG">>
    /\ HasPdf("B")

(***************************************************************************)
(* C7, as claimed: an exception of one folder outside the per-image loop   *)
(* is caught for that folder and the remaining subfolders are processed,   *)
(* so no run ends on it with subfolders left.                              *)
(***************************************************************************)
C7_FolderErrorCaught ==
    ~(pc = "raised" /\ exc \in FolderExcs /\ entries # <<>>)

(***************************************************************************)
(* C7, amended: an exception of one folder outside the per-image loop      *)
(* (listing, target size, PDF) is not caught for the folder: it ends the   *)
(* folder loop, the finally block removes the temp directory, the          *)
(* exception leaves process_images, and no remaining subfolder is read or  *)
(* gets a PDF.                                                             *)
(***************************************************************************)
C7_FolderErrorEndsRun ==
    exc \in FolderExcs =>
        /\ pc = "raised"
        /\ ~temp_dir
        /\ temp = {}
        /\ \A f \in Range(entries) :
               /\ f \notin Names(tree)
               /\ \A p \in pdfs : p.name # f

\* the target size of A could not be read; B was never visited
C7_Witness ==
    /\ pc = "raised"
    /\ exc = "resolve"
    /\ folder_name = "A"
    /\ entries = <<"B">>

(***************************************************************************)
(* C8: whatever the console lines, the policy get_user_choice returns is   *)
(* one of the six, with n positive for UseNthImage, width and height       *)
(* positive for FixedResolution, and a positive parameter for FixedWidth   *)
(* and FixedHeight.                                                        *)
(***************************************************************************)
C8_PolicyInDomain ==
    (pc \notin PromptPcs \cup {"makedirs", "raised"} \/ mode # "unset") =>
        CASE mode \in {"use_nth_image", "fixed_width", "fixed_height"} ->
                 Len(param) = 1 /\ param[1] > 0
          [] mode = "fixed_resolution" ->
                 Len(param) = 2 /\ param[1] > 0 /\ param[2] > 0
          [] mode \in {"max_resolution", "original_size"} -> param = <<>>
          [] OTHER -> FALSE

(***************************************************************************)
(* C9: a staged image of source size (w0, h0) has the size (w0, h0) under  *)
(* OriginalSize, (w, h0) under FixedWidth(w), (w0, h) under FixedHeight(h) *)
(* and the folder's target size under UseNthImage, MaxResolution and       *)
(* FixedResolution, under which all pages of a PDF have one size.          *)
(***************************************************************************)
C9_SizeByPolicy(s0, s, target) ==
    CASE mode = "original_size" -> s = s0
      [] mode = "fixed_width" -> s = <<param[1], s0[2]>>
      [] mode = "fixed_height" -> s = <<s0[1], param[1]>>
      [] OTHER -> s = target

C9_StagedSize ==
    /\ pc \in {"image", "pdf"} =>
           \A b \in Range(temp_images) :
               \E t \in temp :
                   /\ t.base = b
                   /\ C9_SizeByPolicy(size(folder_name, b), t.size, target_size)
    /\ \A p \in pdfs :
           \A i \in 1..Len(p.pages) :
               C9_SizeByPolicy(size(p.name, p.pages[i].name), p.pages[i].size,
                               p.pages[1].size)

\* two images of different sizes are the two pages, of one size, of a PDF
C9_Witness ==
    /\ mode = "use_nth_image"
    /\ \E p \in pdfs :
        /\ Len(p.pages) = 2
        /\ size(p.name, p.pages[1].name) # size(p.name, p.pages[2].name)
        /\ p.pages[1].size = p.pages[2].size

(***************************************************************************)
(* C10: the folders share one temp directory and stage under bare file     *)
(* names, yet every page of a folder's PDF is a file staged from that      *)
(* folder's own image while that folder was processed; a file an earlier   *)
(* folder left under the same name is never a page of a later folder's     *)
(* PDF.                                                                    *)
(***************************************************************************)
C10_OwnStagedFiles ==
    /\ pc \in {"image", "pdf"} =>
           \A b \in Range(temp_images) :
               \E t \in temp : t.base = b /\ t.folder = folder_name
    /\ \A p \in pdfs :
           \A i \in 1..Len(p.pages) : p.pages[i].folder = p.name

\* B's PDF is written while temp_dir still holds the file A staged under the
\* name of an image of B that failed
C10_Witness ==
    /\ folder_name = "B"
    /\ HasPdf("B")
    /\ \E t \in temp : t.folder = "A" /\ t.base \in Failed("B")

====
